---------------------------- MODULE Spec2Model ----------------------------
(***************************************************************************)
(* A model of the MCP-to-LangChain adapter layer:                          *)
(*   - _parse_mcp_tool_result, the tool-result decoder;                    *)
(*   - McpToLangChainAdapter._run / _arun, adapter invocation;             *)
(*   - LangChainAgent.fix_schema, the schema normalizer;                   *)
(*   - LangChainAgent.initialize / run, the agent life cycle.              *)
(*                                                                         *)
(* Python values are modelled as follows.  A str is a sequence of code     *)
(* points (<<97, 98>> is "ab") or, for an f-string, a record holding the   *)
(* literal prefix and the interpolated values.  bytes are a record         *)
(* [bytes |-> <<b1, ...>>].  None is the empty tuple and a present         *)
(* optional value v is <<v>>.  An operation's outcome is either            *)
(* [kind |-> "return", value |-> v] or [kind |-> "raise", exc |-> e].      *)
(* JSON values are tagged: JStr, JList, JDict.                             *)
(***************************************************************************)
EXTENDS Integers, Sequences, FiniteSets, TLC

VARIABLES
    \* ---- adapter invocation and decoding
    adapter,        \* the McpToLangChainAdapter instance: name, handle_tool_error
    call_fails,     \* whether connector.call_tool raises
    tool_result,    \* the CallToolResult the connector returns otherwise
    calls,          \* log of connector.call_tool invocations
    op,             \* the operation that has been applied
    outcome,        \* its outcome
    \* ---- schema normalization
    schema,         \* the dict object handed to fix_schema (mutated in place)
    given,          \* the value of that object when it was handed over
    returned,       \* the values returned by the successive fix_schema calls
    \* ---- agent life cycle
    connector_tools,\* connector.tools: the Tool objects held by the connector
    fetched,        \* their value when the agent was constructed
    max_steps,      \* self.max_steps
    tools,          \* self.tools
    agent,          \* self.agent: None or the AgentExecutor
    last,           \* the last operation on the agent and its outcome
    initialized,    \* history: an initialize call has completed
    given_override, \* history: override of the most recent accepted run giving one
    kept_override   \* history: the same, forgotten when an initialize completes

adapterVars == <<adapter, call_fails, tool_result, calls, op, outcome>>
schemaVars  == <<schema, given, returned>>
agentVars   == <<connector_tools, fetched, max_steps, tools, agent, last,
                 initialized, given_override, kept_override>>
vars == <<adapterVars, schemaVars, agentVars>>

-----------------------------------------------------------------------------
(* Python values *)

None == <<>>
Some(v) == <<v>>

Return(v) == [kind |-> "return", value |-> v]
Raise(type, msg) == [kind |-> "raise", exc |-> [type |-> type, msg |-> msg]]

\* f"<prefix>{a}" and f"<prefix>{a}<infix>{b}"
Fmt1(prefix, a) == [py_type |-> "str", prefix |-> prefix, args |-> <<a>>]
Fmt2(prefix, a, infix, b) ==
    [py_type |-> "str", prefix |-> prefix, infix |-> infix, args |-> <<a, b>>]

\* bytes.decode(): strict UTF-8.  The model covers the one- and two-byte
\* forms (lead bytes below 0xE0), which is what Blobs draws from.
RECURSIVE Utf8Decode(_)
Utf8Decode(bs) ==
    IF bs = <<>> THEN Return(<<>>)
    ELSE LET b1 == Head(bs) IN
         IF b1 < 128
         THEN LET r == Utf8Decode(Tail(bs)) IN
              IF r.kind = "raise" THEN r ELSE Return(<<b1>> \o r.value)
         ELSE IF /\ b1 >= 194 /\ b1 <= 223
                 /\ Len(bs) >= 2 /\ bs[2] >= 128 /\ bs[2] <= 191
         THEN LET r == Utf8Decode(Tail(Tail(bs))) IN
              IF r.kind = "raise" THEN r
              ELSE Return(<<(b1 - 192) * 64 + (bs[2] - 128)>> \o r.value)
         ELSE Raise("UnicodeDecodeError", "invalid utf-8")

\* str(x) of a non-bytes blob: a str is itself, a one-digit int is its digit
PyStr(x) == IF "int" \in DOMAIN x THEN <<48 + x.int>> ELSE x.str

-----------------------------------------------------------------------------
(* _parse_mcp_tool_result *)

\* one iteration of the loop over tool_result.content: what is appended
DecodeResource(resource) ==
    IF "text" \in DOMAIN resource THEN Return(resource.text)
    ELSE IF "blob" \in DOMAIN resource
    THEN IF "bytes" \in DOMAIN resource.blob
         THEN Utf8Decode(resource.blob.bytes)
         ELSE Return(PyStr(resource.blob))
    ELSE IF "type" \in DOMAIN resource
    THEN Raise("ToolException", Fmt1("Unexpected resource type: ", resource.type))
    ELSE Raise("AttributeError", "type")

DecodeItem(item) ==
    CASE item.type = "text" -> Return(item.text)
      [] item.type = "image" -> Return(item.data)
      [] item.type = "resource" -> DecodeResource(item.resource)
      [] OTHER -> Raise("ToolException", Fmt1("Unexpected content type: ", item.type))

\* the variant that puts a newline (code point 10) after every item
RECURSIVE DecodeItems_separated(_, _)
DecodeItems_separated(content, decoded_result) ==
    IF content = <<>> THEN Return(decoded_result)
    ELSE LET r == DecodeItem(Head(content)) IN
         IF r.kind = "raise" THEN r
         ELSE DecodeItems_separated(Tail(content), decoded_result \o r.value \o <<10>>)

RECURSIVE DecodeItems(_, _)
DecodeItems(content, decoded_result) ==
    IF content = <<>> THEN Return(decoded_result)
    ELSE LET r == DecodeItem(Head(content)) IN
         IF r.kind = "raise" THEN r
         ELSE DecodeItems(Tail(content), decoded_result \o r.value)

\* the variant that looks at the content before the error flag
_parse_content_first(tr) ==
    IF tr.content = <<>>
    THEN Raise("ToolException", "Tool execution returned no content")
    ELSE LET r == DecodeItems(tr.content, <<>>) IN
         IF r.kind = "raise" THEN r
         ELSE IF tr.isError
         THEN Raise("ToolException", Fmt1("Tool execution failed: ", tr.content))
         ELSE r

_parse_mcp_tool_result(tr) ==
    IF tr.isError
    THEN Raise("ToolException", Fmt1("Tool execution failed: ", tr.content))
    ELSE IF tr.content = <<>>
    THEN Raise("ToolException", "Tool execution returned no content")
    ELSE DecodeItems(tr.content, <<>>)

-----------------------------------------------------------------------------
(* The inputs of the adapter specification *)

MaxItems == 2

\* "", "ab", "cd" (97 is the code point of "a")
Texts == {<<>>, <<97, 98>>, <<99, 100>>}
\* b"a", b"\xc3\xa9" (e-acute), a lone lead byte, a lone continuation byte
\* then "a"; a str blob "ab"; an int blob
Blobs == {[bytes |-> <<97>>], [bytes |-> <<195, 169>>], [bytes |-> <<195>>],
          [bytes |-> <<169, 97>>], [str |-> <<97, 98>>], [int |-> 7]}
Resources ==
    {[uri |-> "u", text |-> t] : t \in {<<97, 98>>, <<99, 100>>}}
    \cup {[uri |-> "u", blob |-> b] : b \in Blobs}
    \cup {[uri |-> "u", type |-> "link"], [uri |-> "u"]}
Items ==
    {[type |-> "text", text |-> t] : t \in Texts}
    \cup {[type |-> "image", data |-> t] : t \in {<<97, 98>>, <<99, 100>>}}
    \cup {[type |-> "resource", resource |-> r] : r \in Resources}
    \cup {[type |-> "audio"]}
Contents == UNION {[1..n -> Items] : n \in 0..MaxItems}
ToolResults == [isError : BOOLEAN, content : Contents]

ToolNames == {"add", "NO NAME"}
Kwargs == {[k \in {} |-> 0], [k \in {"x"} |-> 1]}
ConnectorError == [type |-> "ConnectionError", msg |-> "session closed"]

-----------------------------------------------------------------------------
(* McpToLangChainAdapter *)

\* await self.connector.call_tool(self.name, kwargs)
CallTool(name, kwargs) ==
    IF call_fails THEN [kind |-> "raise", exc |-> ConnectorError]
    ELSE Return(tool_result)

\* the variant without the inner try: a decoder failure reaches the outer
\* handler
ArunOutcome_single_try(called) ==
    LET raised == IF called.kind = "return"
                  THEN _parse_mcp_tool_result(called.value)
                  ELSE called
    IN IF raised.kind = "return" THEN raised
       ELSE IF adapter.handle_tool_error
       THEN Return(Fmt1("Error executing MCP tool: ", raised.exc.msg))
       ELSE raised

\* the value _arun produces, given the outcome of call_tool
ArunOutcome(called) ==
    IF called.kind = "return"
    THEN LET parsed == _parse_mcp_tool_result(called.value) IN
         IF parsed.kind = "return" THEN Return(parsed.value)
         ELSE Return(Fmt2("Error parsing result: ", parsed.exc.msg,
                          "; Raw content: ", called.value.content))
    ELSE IF adapter.handle_tool_error
    THEN Return(Fmt1("Error executing MCP tool: ", called.exc.msg))
    ELSE called

adapterFrame == UNCHANGED <<schemaVars, agentVars>>

_arun(kwargs) ==
    /\ op = "none"
    /\ op' = "_arun"
    /\ calls' = Append(calls, <<adapter.name, kwargs>>)
    /\ outcome' = ArunOutcome(CallTool(adapter.name, kwargs))
    /\ UNCHANGED <<adapter, call_fails, tool_result>>
    /\ adapterFrame

\* the variant that runs the tool through the connector
_run_through_connector(kwargs) ==
    /\ op = "none"
    /\ op' = "_run"
    /\ calls' = Append(calls, <<adapter.name, kwargs>>)
    /\ outcome' = ArunOutcome(CallTool(adapter.name, kwargs))
    /\ UNCHANGED <<adapter, call_fails, tool_result>>
    /\ adapterFrame

_run(kwargs) ==
    /\ op = "none"
    /\ op' = "_run"
    /\ outcome' = Raise("NotImplementedError", "MCP tools only support async operations")
    /\ UNCHANGED <<adapter, call_fails, tool_result, calls>>
    /\ adapterFrame

\* a direct call of the decoder on the connector's result
Parse ==
    /\ op = "none"
    /\ op' = "parse"
    /\ outcome' = _parse_mcp_tool_result(tool_result)
    /\ UNCHANGED <<adapter, call_fails, tool_result, calls>>
    /\ adapterFrame

\* the other specifications' variables, at rest
schemaIdle == schema = None /\ given = None /\ returned = <<>>
agentIdle ==
    /\ connector_tools = <<>> /\ fetched = <<>> /\ max_steps = None
    /\ tools = <<>> /\ agent = None /\ last = None
    /\ initialized = FALSE /\ given_override = None /\ kept_override = None

AdapterInit ==
    /\ adapter \in [name : ToolNames, handle_tool_error : BOOLEAN]
    /\ call_fails \in BOOLEAN
    /\ tool_result \in ToolResults
    /\ calls = <<>>
    /\ op = "none"
    /\ outcome = None
    /\ schemaIdle
    /\ agentIdle

AdapterNext ==
    \/ \E kwargs \in Kwargs : _arun(kwargs)
    \/ \E kwargs \in Kwargs : _run(kwargs)
    \/ Parse

SpecAdapter == AdapterInit /\ [][AdapterNext]_vars

-----------------------------------------------------------------------------
(* Properties of adapter invocation and of the decoder *)

\* the items the decoder has a payload for, and that payload
IsTextOrImage(item) == item.type \in {"text", "image"}
Payload(item) == IF item.type = "text" THEN item.text ELSE item.data
RECURSIVE Joined(_)
Joined(content) ==
    IF content = <<>> THEN <<>>
    ELSE Joined(SubSeq(content, 1, Len(content) - 1))
         \o Payload(content[Len(content)])

C2_DecoderRejectsErrorAndEmpty ==
    op = "parse" =>
        /\ tool_result.isError =>
              outcome = Raise("ToolException",
                              Fmt1("Tool execution failed: ", tool_result.content))
        /\ (~tool_result.isError /\ tool_result.content = <<>>) =>
              /\ outcome.kind = "raise"
              /\ outcome.exc.type = "ToolException"
        /\ outcome.kind = "return" =>
              (~tool_result.isError /\ tool_result.content # <<>>)

\* isError set on a content holding an item the decoder cannot decode
C2_Witness ==
    /\ op = "parse" /\ tool_result.isError
    /\ Len(tool_result.content) = 2
    /\ tool_result.content[1].type = "audio"
    /\ outcome.kind = "raise"

\* C3: a successful result whose content is a non-empty sequence of text and
\* image items decodes to the concatenation of the items' payloads in the
\* order of the sequence, with nothing added.
C3_DecoderConcatenatesInOrder ==
    (/\ op = "parse" /\ ~tool_result.isError /\ tool_result.content # <<>>
     /\ \A i \in DOMAIN tool_result.content : IsTextOrImage(tool_result.content[i]))
        => outcome = Return(Joined(tool_result.content))

\* "ab" then "cd" gives "abcd"
C3_Witness ==
    /\ op = "parse" /\ ~tool_result.isError
    /\ tool_result.content = <<[type |-> "text", text |-> <<97, 98>>],
                               [type |-> "image", data |-> <<99, 100>>]>>
    /\ outcome = Return(<<97, 98, 99, 100>>)

\* C7: _run fails with NotImplementedError for every adapter and argument
\* set, and connector.call_tool is not invoked.
C7_SyncRunUnsupported ==
    op = "_run" =>
        /\ outcome.kind = "raise"
        /\ outcome.exc.type = "NotImplementedError"
        /\ calls = <<>>

\* a synchronous call on a tool whose asynchronous call would have succeeded
C7_Witness ==
    /\ op = "_run" /\ ~call_fails /\ ~tool_result.isError
    /\ tool_result.content # <<>>
    /\ outcome.kind = "raise"

\* C8: a single embedded-resource item decodes to its text when it has one;
\* otherwise, with a blob, to the blob's UTF-8 decoding when the bytes are
\* valid and to a string representation (so: to some string) when they are
\* not; with neither, decoding fails with ToolException naming resource.type.
C8_ResourceDecodingRule ==
    (/\ op = "parse" /\ ~tool_result.isError /\ Len(tool_result.content) = 1
     /\ tool_result.content[1].type = "resource")
        => LET r == tool_result.content[1].resource IN
           IF "text" \in DOMAIN r THEN outcome = Return(r.text)
           ELSE IF "blob" \in DOMAIN r THEN outcome.kind = "return"
           ELSE "type" \in DOMAIN r =>
                   outcome = Raise("ToolException",
                                   Fmt1("Unexpected resource type: ", r.type))

-----------------------------------------------------------------------------
(* LangChainAgent.fix_schema *)

JStr(x) == [str |-> x]
JList(x) == [list |-> x]
JDict(x) == [dict |-> x]
IsDict(x) == "dict" \in DOMAIN x
IsList(x) == "list" \in DOMAIN x
EmptyDict == [k \in {} |-> None]

\* lines 107-109: a list-valued "type" becomes "anyOf", and "type" is deleted
ConvertType(d) ==
    IF "type" \in DOMAIN d /\ IsList(d["type"])
    THEN [k \in (DOMAIN d \ {"type"}) \cup {"anyOf"} |->
            IF k = "anyOf"
            THEN JList([i \in 1..Len(d["type"].list) |->
                           JDict([type |-> d["type"].list[i]])])
            ELSE d[k]]
    ELSE d

\* the variant that returns right after the conversion, without the loop
RECURSIVE fix_schema_early_return(_)
fix_schema_early_return(s) ==
    IF IsDict(s)
    THEN IF "type" \in DOMAIN s.dict /\ IsList(s.dict["type"])
         THEN JDict(ConvertType(s.dict))
         ELSE JDict([k \in DOMAIN s.dict |-> fix_schema_early_return(s.dict[k])])
    ELSE s

\* the value the object has, and is returned with, after fix_schema
RECURSIVE fix_schema(_)
fix_schema(s) ==
    IF IsDict(s)
    THEN LET d == ConvertType(s.dict) IN
         JDict([k \in DOMAIN d |-> fix_schema(d[k])])
    ELSE s

MaxDepth == 2
MaxFixes == 2

TypeValues == {JStr("string"),
               JList(<<JStr("string"), JStr("null")>>),
               JList(<<JStr("null")>>)}

\* dicts with an optional "type" and at most one of "items" and "anyOf",
\* whose value is a dict of the level below or a one-element list of such
RECURSIVE Schemas(_)
Schemas(depth) ==
    LET below == IF depth = 0 THEN {} ELSE Schemas(depth - 1)
        nested == below \cup {JList(<<b>>) : b \in below}
        typePart == {EmptyDict} \cup {[k \in {"type"} |-> t] : t \in TypeValues}
        restPart == {EmptyDict} \cup
                    UNION {{[k \in {key} |-> n] : n \in nested} :
                             key \in {"items", "anyOf"}}
    IN {JDict(t @@ r) : t \in typePart, r \in restPart}

agentFrame == UNCHANGED agentVars
schemaFrame == UNCHANGED schemaVars

\* self.fix_schema(schema) on the object, once more
FixSchema ==
    /\ Len(returned) < MaxFixes
    /\ schema' = fix_schema(schema)
    /\ returned' = Append(returned, schema')
    /\ UNCHANGED given
    /\ UNCHANGED adapterVars
    /\ agentFrame

SchemaInit ==
    /\ schema \in Schemas(MaxDepth)
    /\ given = schema
    /\ returned = <<>>
    /\ adapter = None /\ call_fails = FALSE /\ tool_result = None
    /\ calls = <<>> /\ op = "none" /\ outcome = None
    /\ agentIdle

SchemaNext == FixSchema

SpecSchema == SchemaInit /\ [][SchemaNext]_vars

-----------------------------------------------------------------------------
(* Properties of the schema normalizer *)

HasListType(x) == IsDict(x) /\ "type" \in DOMAIN x.dict /\ IsList(x.dict["type"])

\* no dict, at any depth and through dicts and lists alike, has a list "type"
RECURSIVE NoListType(_)
NoListType(x) ==
    CASE IsDict(x) -> /\ ~HasListType(x)
                         /\ \A k \in DOMAIN x.dict : NoListType(x.dict[k])
      [] IsList(x) -> \A i \in DOMAIN x.list : NoListType(x.list[i])
      [] OTHER -> TRUE

\* C6: the normalized schema has, at every depth, no dict whose "type" is a
\* list; a dict that had one has an "anyOf" of single-type dicts, one per
\* entry in the entries' order, and no "type".
C6_NormalizationComplete ==
    returned # <<>> =>
        /\ HasListType(given) =>
              /\ "type" \notin DOMAIN returned[1].dict
              /\ returned[1].dict["anyOf"] =
                    JList([i \in 1..Len(given.dict["type"].list) |->
                              JDict([type |-> given.dict["type"].list[i]])])
        /\ NoListType(returned[1])

\* C9: normalizing a normalized schema again returns an equal structure.
C9_NormalizationIdempotent ==
    \A i \in 2..Len(returned) : returned[i] = returned[1]

\* a second normalization of a schema that the first one changed at two levels
C9_Witness ==
    /\ Len(returned) = 2
    /\ HasListType(given)
    /\ "items" \in DOMAIN given.dict /\ HasListType(given.dict["items"])
    /\ returned[1] # given

-----------------------------------------------------------------------------
(* LangChainAgent: __init__, initialize, run *)

MaxTools == 2
MaxStepLimit == 3

\* the Tool objects a connector may hold
ToolChoices ==
    {[name |-> "add", description |-> Some("adds"),
      inputSchema |-> JDict([type |-> JList(<<JStr("string"), JStr("null")>>)])],
     [name |-> "echo", description |-> Some(""),
      inputSchema |-> JDict([type |-> JStr("object"),
                             items |-> JDict([type |-> JList(<<JStr("null")>>)])])],
     [name |-> "", description |-> None,
      inputSchema |-> JDict(EmptyDict)]}

StepLimits == 1..MaxStepLimit
Overrides == {None} \cup {Some(n) : n \in StepLimits}
FinalOutput == "final answer"

\* the adapter _create_langchain_tools builds for a tool whose inputSchema
\* has been through fix_schema (lines 127-135, 180)
McpToLangChainAdapter(tool) ==
    [name |-> IF tool.name = "" THEN "NO NAME" ELSE tool.name,
     description |-> IF tool.description = None THEN "" ELSE tool.description[1],
     args_schema |-> [jsonschema_to_pydantic |-> tool.inputSchema],
     handle_tool_error |-> TRUE]

\* the Tool object after fix_schema(tool.inputSchema): the dict is mutated
FixedTool(tool) == [tool EXCEPT !.inputSchema = fix_schema(@)]

\* AgentExecutor(agent=..., tools=self.tools, max_iterations=self.max_steps)
AgentExecutor(the_tools, limit) == [tools |-> the_tools, max_iterations |-> limit]

\* the limit a run would drive the loop with
StepLimit == IF agent = None THEN max_steps ELSE agent[1].max_iterations

\* where an initialize call stops: nowhere, while building the adapter of
\* tool `index` (the schema conversion raises), or in _create_agent
Failures ==
    {[at |-> "none"], [at |-> "agent"]}
    \cup {[at |-> "tool", index |-> i] : i \in 1..Len(connector_tools)}

\* how many tools have been through fix_schema when the call ends
Reached(failure) ==
    IF failure.at = "tool" THEN failure.index ELSE Len(connector_tools)

initialize(failure) ==
    /\ connector_tools' =
          [i \in 1..Len(connector_tools) |->
              IF i <= Reached(failure) THEN FixedTool(connector_tools[i])
              ELSE connector_tools[i]]
    /\ tools' = IF failure.at = "tool" THEN tools
                ELSE [i \in 1..Len(connector_tools) |->
                         McpToLangChainAdapter(connector_tools'[i])]
    /\ agent' = IF failure.at = "none"
                THEN Some(AgentExecutor(tools', max_steps))
                ELSE agent
    /\ initialized' = (initialized \/ failure.at = "none")
    /\ kept_override' = IF failure.at = "none" THEN None ELSE kept_override
    /\ last' = [op |-> "initialize",
                outcome |-> IF failure.at = "none" THEN Return(None)
                            ELSE Raise("Exception", failure.at)]
    /\ UNCHANGED <<fetched, max_steps, given_override>>
    /\ UNCHANGED adapterVars
    /\ schemaFrame

\* run without the check of self.agent
run_unguarded(override, nominal) ==
    /\ IF agent = None
       THEN /\ last' = [op |-> "run", override |-> override, nominal |-> nominal,
                        drove_loop |-> FALSE,
                        outcome |-> Raise("AttributeError", "max_iterations")]
            /\ UNCHANGED <<agent, given_override, kept_override>>
       ELSE /\ agent' = IF override = None THEN agent
                        ELSE Some([agent[1] EXCEPT !.max_iterations = override[1]])
            /\ given_override' = IF override = None THEN given_override ELSE override
            /\ kept_override' = IF override = None THEN kept_override ELSE override
            /\ last' = [op |-> "run", override |-> override, nominal |-> nominal,
                        drove_loop |-> TRUE,
                        limit |-> agent'[1].max_iterations,
                        outcome |-> IF nominal THEN Return(FinalOutput)
                                    ELSE Raise("Exception", "agent loop")]
    /\ UNCHANGED <<connector_tools, fetched, max_steps, tools, initialized>>
    /\ UNCHANGED adapterVars
    /\ schemaFrame

\* run with an override that holds for that call only
run_override_once(override, nominal) ==
    /\ IF agent = None
       THEN /\ last' = [op |-> "run", override |-> override, nominal |-> nominal,
                        drove_loop |-> FALSE,
                        outcome |-> Raise("RuntimeError", "MCP client is not initialized")]
            /\ UNCHANGED <<agent, given_override, kept_override>>
       ELSE /\ agent' = agent
            /\ given_override' = IF override = None THEN given_override ELSE override
            /\ kept_override' = IF override = None THEN kept_override ELSE override
            /\ last' = [op |-> "run", override |-> override, nominal |-> nominal,
                        drove_loop |-> TRUE,
                        limit |-> IF override = None THEN agent[1].max_iterations
                                  ELSE override[1],
                        outcome |-> IF nominal THEN Return(FinalOutput)
                                    ELSE Raise("Exception", "agent loop")]
    /\ UNCHANGED <<connector_tools, fetched, max_steps, tools, initialized>>
    /\ UNCHANGED adapterVars
    /\ schemaFrame

\* run(query, max_steps=override); `nominal` is whether agent.ainvoke returns
run(override, nominal) ==
    /\ IF agent = None
       THEN /\ last' = [op |-> "run", override |-> override, nominal |-> nominal,
                        drove_loop |-> FALSE,
                        outcome |-> Raise("RuntimeError", "MCP client is not initialized")]
            /\ UNCHANGED <<agent, given_override, kept_override>>
       ELSE /\ agent' = IF override = None THEN agent
                        ELSE Some([agent[1] EXCEPT !.max_iterations = override[1]])
            /\ given_override' = IF override = None THEN given_override ELSE override
            /\ kept_override' = IF override = None THEN kept_override ELSE override
            /\ last' = [op |-> "run", override |-> override, nominal |-> nominal,
                        drove_loop |-> TRUE,
                        limit |-> agent'[1].max_iterations,
                        outcome |-> IF nominal THEN Return(FinalOutput)
                                    ELSE Raise("Exception", "agent loop")]
    /\ UNCHANGED <<connector_tools, fetched, max_steps, tools, initialized>>
    /\ UNCHANGED adapterVars
    /\ schemaFrame

\* LangChainAgent(connector, llm, max_steps)
Init ==
    /\ connector_tools \in UNION {[1..n -> ToolChoices] : n \in 0..MaxTools}
    /\ fetched = connector_tools
    /\ max_steps \in StepLimits
    /\ tools = <<>>
    /\ agent = None
    /\ last = None
    /\ initialized = FALSE
    /\ given_override = None
    /\ kept_override = None
    /\ adapter = None /\ call_fails = FALSE /\ tool_result = None
    /\ calls = <<>> /\ op = "none" /\ outcome = None
    /\ schemaIdle

Next ==
    \/ \E failure \in Failures : initialize(failure)
    \/ \E override \in Overrides, nominal \in BOOLEAN : run(override, nominal)

Spec == Init /\ [][Next]_vars

-----------------------------------------------------------------------------
(* Properties of the agent life cycle *)

IsRun(l) == l # None /\ l.op = "run"

\* C4: a run issued while no initialize call has completed fails with
\* RuntimeError("MCP client is not initialized"), does not drive the agent
\* loop and leaves the step limit as it was, also after an initialize that
\* failed part-way; a run issued after a completed initialize, with the loop
\* returning, returns the final output.
C4_RunGatedByInitialize ==
    [][IsRun(last') =>
          IF ~initialized
          THEN /\ last'.outcome = Raise("RuntimeError", "MCP client is not initialized")
               /\ ~last'.drove_loop
               /\ StepLimit' = StepLimit
               /\ max_steps' = max_steps
          ELSE /\ last'.drove_loop
               /\ last'.nominal => last'.outcome = Return(FinalOutput)
      ]_vars

\* a rejected run with an override, after an initialize that stopped in
\* _create_agent (self.tools assigned, self.agent not)
C4_Witness ==
    /\ IsRun(last) /\ ~initialized /\ tools # <<>>
    /\ last.override # None
    /\ last.outcome.kind = "raise"

\* C5 as stated: the limit in force for a run without override is the
\* override of the most recent earlier (accepted) run that gave one, else
\* the construction-time value.
C5_OverridePersistsAcrossAllCalls ==
    (IsRun(last) /\ last.drove_loop /\ last.override = None)
        => last.limit = IF given_override = None THEN max_steps
                        ELSE given_override[1]

\* C5 as amended: ... of the most recent earlier accepted run that gave one
\* since the last completed initialize, else the construction-time value.
C5_OverridePersistsUntilInitialize ==
    (IsRun(last) /\ last.drove_loop /\ last.override = None)
        => last.limit = IF kept_override = None THEN max_steps
                        ELSE kept_override[1]

\* a run without override driven with an earlier run's override
C5_Witness ==
    /\ IsRun(last) /\ last.drove_loop /\ last.override = None
    /\ kept_override # None /\ kept_override[1] # max_steps
    /\ last.limit = kept_override[1]

\* C10: the Tools held by the connector are as they were fetched.
C10_ToolsUnchangedByInitialize ==
    \A i \in DOMAIN connector_tools :
        /\ connector_tools[i].name = fetched[i].name
        /\ connector_tools[i].description = fetched[i].description
        /\ connector_tools[i].inputSchema = fetched[i].inputSchema

=============================================================================
